---- MODULE Spec2Model ----
(***************************************************************************)
(* Model of tracker/utils/order_type_detector.py: the classification of an *)
(* order from its invoice item codes (determine_order_type_from_codes),    *)
(* the mapping of a labour-code category to an order type                  *)
(* (_normalize_category_to_order_type) and the status label                *)
(* (get_mixed_order_status_display).                                       *)
(*                                                                         *)
(* A Python str is a sequence of one-character strings, so that strip(),   *)
(* lower(), title(), the substring test and the ordering used by sorted()  *)
(* are computed character by character.                                    *)
(***************************************************************************)
EXTENDS Integers, Sequences, FiniteSets, TLC

VARIABLES
    item_codes,     \* argument of determine_order_type_from_codes
    table,          \* the LabourCode rows, in the order the database yields them
    dbFault,        \* "none", or the exception the LabourCode query raises
    pc,             \* "start" before the call, "done" after it
    result,         \* outcome of the call: a returned triple or a raised fault
    other_codes,    \* argument of a second call against the same table
    other_result,   \* outcome of the second call
    category,       \* argument of _normalize_category_to_order_type
    norm_result,    \* its return value
    d_order_type,   \* arguments of get_mixed_order_status_display
    d_categories,
    d_result        \* its return value

vars == <<item_codes, table, dbFault, pc, result, other_codes, other_result,
          category, norm_result, d_order_type, d_categories, d_result>>

-----------------------------------------------------------------------------
(* Bounds of the model. *)

MaxCodes == 2       \* longest item_codes list
MaxRows == 2        \* most LabourCode rows in the table
MaxWords == 3       \* most fragments a category string is built from
MaxCats == 2        \* longest categories list given to the display function

-----------------------------------------------------------------------------
(* Python str: characters and the built-in string methods the code uses. *)

UPPER == <<"A","B","C","D","E","F","G","H","I","J","K","L","M",
           "N","O","P","Q","R","S","T","U","V","W","X","Y","Z">>
LOWER == <<"a","b","c","d","e","f","g","h","i","j","k","l","m",
           "n","o","p","q","r","s","t","u","v","w","x","y","z">>
DIGITS == <<"0","1","2","3","4","5","6","7","8","9">>

IndexIn(c, seq) ==
    IF \E i \in 1..Len(seq) : seq[i] = c
    THEN CHOOSE i \in 1..Len(seq) : seq[i] = c
    ELSE 0

IsUpper(c) == IndexIn(c, UPPER) # 0
IsLower(c) == IndexIn(c, LOWER) # 0
IsCased(c) == IsUpper(c) \/ IsLower(c)

\* str.lower() and str.upper() on one character
LowerChar(c) == IF IsUpper(c) THEN LOWER[IndexIn(c, UPPER)] ELSE c
UpperChar(c) == IF IsLower(c) THEN UPPER[IndexIn(c, LOWER)] ELSE c

\* the characters str.strip() removes
IsSpace(c) == c \in {" ", "\t", "\n"}

\* code point of a character: the order sorted() compares strings by
Ord(c) ==
    IF IsUpper(c) THEN 64 + IndexIn(c, UPPER)
    ELSE IF IsLower(c) THEN 96 + IndexIn(c, LOWER)
    ELSE IF IndexIn(c, DIGITS) # 0 THEN 47 + IndexIn(c, DIGITS)
    ELSE CASE c = "\t" -> 9
           [] c = "\n" -> 10
           [] c = " " -> 32
           [] c = "(" -> 40
           [] c = ")" -> 41
           [] c = "," -> 44
           [] c = "/" -> 47

\* str.lower()
Lower(s) == [i \in 1..Len(s) |-> LowerChar(s[i])]

\* str.strip(): drop leading, then trailing whitespace
RECURSIVE LStrip(_)
LStrip(s) ==
    IF s # <<>> /\ IsSpace(Head(s)) THEN LStrip(Tail(s)) ELSE s

RECURSIVE RStrip(_)
RStrip(s) ==
    IF s # <<>> /\ IsSpace(s[Len(s)]) THEN RStrip(SubSeq(s, 1, Len(s) - 1)) ELSE s

Strip(s) == RStrip(LStrip(s))

\* `sub in s`
Contains(s, sub) ==
    \E i \in 0..(Len(s) - Len(sub)) : SubSeq(s, i + 1, i + Len(sub)) = sub

\* str.title(): a cased character is upper-cased when the character before
\* it is not cased, and lower-cased when it is
RECURSIVE TitleFrom(_, _)
TitleFrom(s, previous_is_cased) ==
    IF s = <<>> THEN <<>>
    ELSE LET c == Head(s) IN
         <<IF previous_is_cased THEN LowerChar(c) ELSE UpperChar(c)>>
            \o TitleFrom(Tail(s), IsCased(c))

Title(s) == TitleFrom(s, FALSE)

\* `a < b` on str: lexicographic by code point
RECURSIVE StrLess(_, _)
StrLess(a, b) ==
    IF b = <<>> THEN FALSE
    ELSE IF a = <<>> THEN TRUE
    ELSE IF Head(a) = Head(b) THEN StrLess(Tail(a), Tail(b))
    ELSE Ord(Head(a)) < Ord(Head(b))

\* sorted(list(S)) for a set S of str
RECURSIVE Sorted(_)
Sorted(S) ==
    IF S = {} THEN <<>>
    ELSE LET m == CHOOSE x \in S : \A y \in S \ {x} : StrLess(x, y)
         IN <<m>> \o Sorted(S \ {m})

\* sep.join(parts)
RECURSIVE Join(_, _)
Join(sep, parts) ==
    IF parts = <<>> THEN <<>>
    ELSE IF Len(parts) = 1 THEN parts[1]
    ELSE parts[1] \o sep \o Join(sep, Tail(parts))

-----------------------------------------------------------------------------
(* String literals of the source. *)

sales == <<"s","a","l","e","s">>
labour == <<"l","a","b","o","u","r">>
service == <<"s","e","r","v","i","c","e">>
mixed == <<"m","i","x","e","d">>
inquiry == <<"i","n","q","u","i","r","y">>
tyre == <<"t","y","r","e">>

-----------------------------------------------------------------------------
(* Python values that occur as entries of item_codes: None, a str, an int. *)

None == [t |-> "None", s |-> <<>>, n |-> 0]
PyStr(chars) == [t |-> "str", s |-> chars, n |-> 0]
PyInt(k) == [t |-> "int", s |-> <<>>, n |-> k]

\* truth value of an entry, as `if code` tests it
Truthy(e) ==
    CASE e.t = "None" -> FALSE
      [] e.t = "str" -> e.s # <<>>
      [] e.t = "int" -> e.n # 0

\* str(k) for an int k >= 0
RECURSIVE Decimal(_)
Decimal(k) ==
    IF k < 10 THEN <<DIGITS[k + 1]>>
    ELSE Decimal(k \div 10) \o <<DIGITS[(k % 10) + 1]>>

\* str(code)
Str(e) ==
    CASE e.t = "None" -> <<"N","o","n","e">>
      [] e.t = "str" -> e.s
      [] e.t = "int" -> Decimal(e.n)

Range(f) == {f[i] : i \in DOMAIN f}

\* cleaned_codes = [str(code).strip() for code in item_codes if code]
CleanedCodes(codes) ==
    LET kept == SelectSeq(codes, Truthy)
    IN [i \in 1..Len(kept) |-> Strip(Str(kept[i]))]

\* LabourCode.objects.filter(code__in=cleaned_codes, is_active=True)
\*     .values('code', 'category'): the matching rows in the table's order
FoundCodes(tbl, cleaned_codes) ==
    LET Matches(row) == row.code \in Range(cleaned_codes) /\ row.is_active
        rows == SelectSeq(tbl, Matches)
    IN [i \in 1..Len(rows) |-> [code |-> rows[i].code, category |-> rows[i].category]]

EmptyDict == [code \in {} |-> <<>>]

\* d[k] = v on a dict
DictSet(d, k, v) == [x \in (DOMAIN d) \cup {k} |-> IF x = k THEN v ELSE d[x]]

\* the loop over found_codes, from the mappings built so far
RECURSIVE BuildMappings(_, _)
BuildMappings(found_codes, acc) ==
    IF found_codes = <<>> THEN acc
    ELSE LET row == Head(found_codes) IN
         BuildMappings(Tail(found_codes),
            [code_to_category |-> DictSet(acc.code_to_category, row.code, row.category),
             categories_found |-> acc.categories_found \cup {row.category},
             found_code_set |-> acc.found_code_set \cup {row.code}])

NoMappings == [code_to_category |-> EmptyDict, categories_found |-> {}, found_code_set |-> {}]

\* as UnmappedCodes, without the test `code not in found_code_set`
UnmappedCodes_NoTest(cleaned_codes, found_code_set) == cleaned_codes

\* the loop over cleaned_codes that collects the unmapped codes
UnmappedCodes(cleaned_codes, found_code_set) ==
    LET NotFound(code) == code \notin found_code_set
    IN SelectSeq(cleaned_codes, NotFound)

Returned(order_type, categories, mapping_info, queried) ==
    [kind |-> "return", order_type |-> order_type, categories |-> categories,
     mapping_info |-> mapping_info, queried |-> queried]

Raised(exc) == [kind |-> "raise", exc |-> exc, queried |-> TRUE]

NotCalled == [kind |-> "none"]

\* the early return of both degenerate paths
EarlyReturn == Returned(sales, <<>>, [mapped |-> EmptyDict, unmapped |-> <<>>], FALSE)

\* as NormalizeCategoryToOrderType, testing `'labour' in category_lower`
\* in place of equality
NormalizeCategory_LabourSubstring(cat) ==
    IF cat = <<>> THEN sales
    ELSE LET category_lower == Strip(Lower(cat)) IN
         IF Contains(category_lower, labour) THEN labour
         ELSE IF Contains(category_lower, tyre) \/ Contains(category_lower, service)
              THEN service
         ELSE labour

\* _normalize_category_to_order_type(category)
NormalizeCategoryToOrderType(cat) ==
    IF cat = <<>> THEN sales
    ELSE LET category_lower == Strip(Lower(cat)) IN
         IF category_lower = labour THEN labour
         ELSE IF Contains(category_lower, tyre) \/ Contains(category_lower, service)
              THEN service
         ELSE labour

\* as OrderTypeOf, with categories = list(categories_found) left unsorted
\* (here: in descending order)
OrderTypeOf_Unsorted(categories_found) ==
    IF categories_found = {} THEN [order_type |-> sales, categories |-> <<>>]
    ELSE IF Cardinality(categories_found) = 1
         THEN LET c == CHOOSE x \in categories_found : TRUE IN
              [order_type |-> NormalizeCategoryToOrderType(c), categories |-> <<c>>]
    ELSE LET up == Sorted(categories_found) IN
         [order_type |-> mixed,
          categories |-> [i \in 1..Len(up) |-> up[Len(up) + 1 - i]]]

\* the if/elif/else that picks order_type and categories
OrderTypeOf(categories_found) ==
    IF categories_found = {} THEN [order_type |-> sales, categories |-> <<>>]
    ELSE IF Cardinality(categories_found) = 1
         THEN LET c == CHOOSE x \in categories_found : TRUE IN
              [order_type |-> NormalizeCategoryToOrderType(c), categories |-> <<c>>]
    ELSE [order_type |-> mixed, categories |-> Sorted(categories_found)]

\* as Classified, with any unmapped code counted as one more category
Classified_UnmappedCounts(cleaned_codes, tbl) ==
    LET m == BuildMappings(FoundCodes(tbl, cleaned_codes), NoMappings)
        unmapped_codes == UnmappedCodes(cleaned_codes, m.found_code_set)
        decided == OrderTypeOf(IF unmapped_codes = <<>> THEN m.categories_found
                               ELSE m.categories_found \cup {sales})
    IN Returned(decided.order_type, decided.categories,
                [mapped |-> m.code_to_category,
                 unmapped |-> unmapped_codes,
                 categories_found |-> decided.categories],
                TRUE)

\* the body of determine_order_type_from_codes once the query has returned:
\* the mappings, the unmapped codes, the order type and mapping_info
Classified(cleaned_codes, tbl) ==
    LET m == BuildMappings(FoundCodes(tbl, cleaned_codes), NoMappings)
        unmapped_codes == UnmappedCodes(cleaned_codes, m.found_code_set)
        decided == OrderTypeOf(m.categories_found)
    IN Returned(decided.order_type, decided.categories,
                [mapped |-> m.code_to_category,
                 unmapped |-> unmapped_codes,
                 categories_found |-> decided.categories],
                TRUE)

\* as Determine, with the query wrapped in a try/except that answers the
\* sales default
Determine_FaultAsSales(codes, tbl, fault) ==
    IF codes = <<>> THEN EarlyReturn
    ELSE LET cleaned_codes == CleanedCodes(codes) IN
         IF cleaned_codes = <<>> THEN EarlyReturn
         ELSE IF fault # "none"
              THEN Returned(sales, <<>>,
                            [mapped |-> EmptyDict, unmapped |-> cleaned_codes,
                             categories_found |-> <<>>], TRUE)
         ELSE Classified(cleaned_codes, tbl)

\* determine_order_type_from_codes(item_codes), run against the table `tbl`
\* with the query raising `fault` unless fault = "none": nothing catches it
Determine(codes, tbl, fault) ==
    IF codes = <<>> THEN EarlyReturn
    ELSE LET cleaned_codes == CleanedCodes(codes) IN
         IF cleaned_codes = <<>> THEN EarlyReturn
         ELSE IF fault # "none" THEN Raised(fault)
         ELSE Classified(cleaned_codes, tbl)

\* as Display, without the test that categories is not empty
Display_MixedAlways(order_type, categories) ==
    IF order_type = mixed
    THEN <<"M","i","x","e","d"," ","(">>
            \o Join(<<",", " ">>, [i \in 1..Len(categories) |-> Title(categories[i])])
            \o <<")">>
    ELSE IF order_type = labour THEN <<"L","a","b","o","u","r">>
    ELSE IF order_type = service THEN <<"S","e","r","v","i","c","e">>
    ELSE IF order_type = sales THEN <<"S","a","l","e","s">>
    ELSE IF order_type = inquiry THEN <<"I","n","q","u","i","r","y">>
    ELSE Title(order_type)

\* get_mixed_order_status_display(order_type, categories)
Display(order_type, categories) ==
    IF order_type = mixed /\ categories # <<>>
    THEN <<"M","i","x","e","d"," ","(">>
            \o Join(<<",", " ">>, [i \in 1..Len(categories) |-> Title(categories[i])])
            \o <<")">>
    ELSE IF order_type = labour THEN <<"L","a","b","o","u","r">>
    ELSE IF order_type = service THEN <<"S","e","r","v","i","c","e">>
    ELSE IF order_type = sales THEN <<"S","a","l","e","s">>
    ELSE IF order_type = inquiry THEN <<"I","n","q","u","i","r","y">>
    ELSE Title(order_type)

-----------------------------------------------------------------------------
(* The inputs the model draws from. *)

SeqsUpTo(S, n) == UNION {[1..k -> S] : k \in 0..n}

sp == <<" ">>
tyre_service == tyre \o sp \o service
Parts == <<"P","a","r","t","s">>

\* entries of an item_codes list: falsy ones, padded ones, a whitespace-only one
RawCodes ==
    {None, PyStr(<<>>), PyInt(0), PyStr(sp), PyStr(<<"A">>), PyStr(<<" ","A"," ">>), PyInt(7)}

CodeLists == SeqsUpTo(RawCodes, MaxCodes)

\* rows of the LabourCode table: codes need not be unique
TableCodes == {<<"A">>, <<"7">>, <<>>}
TableCategories == {labour, tyre_service, Parts}
LabourCodeRows ==
    {[code |-> c, category |-> g, is_active |-> TRUE] : c \in TableCodes, g \in TableCategories}
    \cup {[code |-> <<"A">>, category |-> labour, is_active |-> FALSE],
          [code |-> <<"7">>, category |-> tyre_service, is_active |-> FALSE]}

Tables == SeqsUpTo(LabourCodeRows, MaxRows)

DbFaults == {"none", "OperationalError", "ProgrammingError"}

-----------------------------------------------------------------------------
(* One call of determine_order_type_from_codes. *)

Idle ==
    /\ other_codes = <<>>
    /\ other_result = NotCalled
    /\ category = <<>>
    /\ norm_result = <<>>
    /\ d_order_type = <<>>
    /\ d_categories = <<>>
    /\ d_result = <<>>

Init ==
    /\ item_codes \in CodeLists
    /\ table \in Tables
    /\ dbFault \in DbFaults
    /\ pc = "start"
    /\ result = NotCalled
    /\ Idle

DetermineOrderTypeFromCodes ==
    /\ pc = "start"
    /\ result' = Determine(item_codes, table, dbFault)
    /\ pc' = "done"
    /\ UNCHANGED <<item_codes, table, dbFault, other_codes, other_result,
                   category, norm_result, d_order_type, d_categories, d_result>>

Next == DetermineOrderTypeFromCodes

Spec == Init /\ [][Next]_vars

-----------------------------------------------------------------------------
(* Two calls against the same table: the second with other item codes. *)

PairCodes == {PyStr(<<"A">>), PyInt(7), PyStr(<<" ","B">>)}
PairRows ==
    {[code |-> c, category |-> g, is_active |-> TRUE] :
        c \in {<<"A">>, <<"7">>}, g \in {labour, tyre_service}}

InitPair ==
    /\ item_codes \in SeqsUpTo(PairCodes, MaxCodes)
    /\ other_codes \in SeqsUpTo(PairCodes, MaxCodes)
    /\ table \in SeqsUpTo(PairRows, MaxRows)
    /\ dbFault = "none"
    /\ pc = "start"
    /\ result = NotCalled
    /\ other_result = NotCalled
    /\ category = <<>>
    /\ norm_result = <<>>
    /\ d_order_type = <<>>
    /\ d_categories = <<>>
    /\ d_result = <<>>

DetermineAgain ==
    /\ pc = "done"
    /\ other_result' = Determine(other_codes, table, dbFault)
    /\ pc' = "again"
    /\ UNCHANGED <<item_codes, table, dbFault, result, other_codes,
                   category, norm_result, d_order_type, d_categories, d_result>>

NextPair == DetermineOrderTypeFromCodes \/ DetermineAgain

SpecPair == InitPair /\ [][NextPair]_vars

-----------------------------------------------------------------------------
(* _normalize_category_to_order_type applied to a category string. *)

RECURSIVE Concat(_)
Concat(parts) == IF parts = <<>> THEN <<>> ELSE Head(parts) \o Concat(Tail(parts))

CategoryWords ==
    {labour, <<"L","A","B","O","U","R">>, tyre, <<"T","y","r","e">>, service,
     sp, <<"x">>, <<"/">>}

CategoryStrings == {Concat(w) : w \in SeqsUpTo(CategoryWords, MaxWords)}

InitNormalize ==
    /\ category \in CategoryStrings
    /\ norm_result = <<>>
    /\ pc = "start"
    /\ item_codes = <<>>
    /\ table = <<>>
    /\ dbFault = "none"
    /\ result = NotCalled
    /\ other_codes = <<>>
    /\ other_result = NotCalled
    /\ d_order_type = <<>>
    /\ d_categories = <<>>
    /\ d_result = <<>>

NormalizeCategory ==
    /\ pc = "start"
    /\ norm_result' = NormalizeCategoryToOrderType(category)
    /\ pc' = "done"
    /\ UNCHANGED <<item_codes, table, dbFault, result, other_codes, other_result,
                   category, d_order_type, d_categories, d_result>>

NextNormalize == NormalizeCategory

SpecNormalize == InitNormalize /\ [][NextNormalize]_vars

-----------------------------------------------------------------------------
(* get_mixed_order_status_display applied to (order_type, categories). *)

DisplayOrderTypes ==
    {mixed, labour, service, sales, inquiry, <<>>,
     <<"M","I","X","E","D">>, <<"q","u","o","t","e">>, tyre_service}

DisplayCategories == {labour, tyre_service, <<"P","A","R","T","S">>, tyre \o <<"/">> \o Parts}

InitDisplay ==
    /\ d_order_type \in DisplayOrderTypes
    /\ d_categories \in SeqsUpTo(DisplayCategories, MaxCats)
    /\ d_result = <<>>
    /\ pc = "start"
    /\ item_codes = <<>>
    /\ table = <<>>
    /\ dbFault = "none"
    /\ result = NotCalled
    /\ other_codes = <<>>
    /\ other_result = NotCalled
    /\ category = <<>>
    /\ norm_result = <<>>

GetMixedOrderStatusDisplay ==
    /\ pc = "start"
    /\ d_result' = Display(d_order_type, d_categories)
    /\ pc' = "done"
    /\ UNCHANGED <<item_codes, table, dbFault, result, other_codes, other_result,
                   category, norm_result, d_order_type, d_categories>>

NextDisplay == GetMixedOrderStatusDisplay

SpecDisplay == InitDisplay /\ [][NextDisplay]_vars

-----------------------------------------------------------------------------
(* Notions the properties are stated in. *)

Returns(r) == r.kind = "return"

\* the categories of the active rows whose code is among the cleaned codes
RecognizedCategories(codes, tbl) ==
    {tbl[i].category : i \in {j \in DOMAIN tbl :
        tbl[j].is_active /\ tbl[j].code \in Range(CleanedCodes(codes))}}

\* the codes that have an active row
ActiveCodes(tbl) == {tbl[i].code : i \in {j \in DOMAIN tbl : tbl[j].is_active}}

\* an entry that is a str made of whitespace only
IsBlank(e) == e.t = "str" /\ e.s # <<>> /\ \A i \in DOMAIN e.s : IsSpace(e.s[i])

DictValues(d) == {d[k] : k \in DOMAIN d}

\* t is s title-cased, position by position
IsTitleOf(t, s) ==
    /\ Len(t) = Len(s)
    /\ \A i \in 1..Len(s) :
        t[i] = IF ~IsCased(s[i]) THEN s[i]
               ELSE IF i > 1 /\ IsCased(s[i - 1]) THEN LowerChar(s[i])
               ELSE UpperChar(s[i])

\* s is `word` with whitespace around it
IsPadded(s, word) ==
    \E i \in 1..Len(s) :
        /\ i + Len(word) - 1 <= Len(s)
        /\ SubSeq(s, i, i + Len(word) - 1) = word
        /\ \A k \in 1..Len(s) : (k < i \/ k > i + Len(word) - 1) => IsSpace(s[k])

\* `word` occurs in s when case is ignored
OccursIgnoringCase(s, word) ==
    \E i \in 0..(Len(s) - Len(word)) :
        \A k \in 1..Len(word) : LowerChar(s[i + k]) = word[k]

\* 0-based position in "Mixed (a, b, c)" where the i-th category starts
RECURSIVE TitleOffset(_, _)
TitleOffset(cats, i) ==
    IF i = 1 THEN 7 ELSE TitleOffset(cats, i - 1) + Len(cats[i - 1]) + 2

-----------------------------------------------------------------------------
(* Properties. *)

\* C1: for an item_codes list that is empty or holds only falsy entries the
\* call returns (sales, [], mapping_info) where mapping_info has the three
\* fields mapped = {}, unmapped = [] and categories_found = [].
C1_DegenerateResultHasThreeFields ==
    (pc = "done" /\ \A i \in DOMAIN item_codes : ~Truthy(item_codes[i]))
        => /\ Returns(result)
           /\ result.order_type = sales
           /\ result.categories = <<>>
           /\ result.mapping_info =
                [mapped |-> <<>>, unmapped |-> <<>>, categories_found |-> <<>>]

\* C2: no normalized code, and so no key of mapped and no element of
\* unmapped, is the empty string; and an input made only of whitespace-only
\* strings returns the sales result at once, without a lookup.
C2_NoEmptyCodeAfterNormalization ==
    pc = "done" =>
        /\ \A i \in DOMAIN CleanedCodes(item_codes) : CleanedCodes(item_codes)[i] # <<>>
        /\ Returns(result) =>
            /\ <<>> \notin DOMAIN result.mapping_info.mapped
            /\ <<>> \notin Range(result.mapping_info.unmapped)
        /\ (\A i \in DOMAIN item_codes : IsBlank(item_codes[i])) =>
            /\ Returns(result)
            /\ result.order_type = sales
            /\ ~result.queried

\* C3: the keys of mapped together with the codes in unmapped are exactly
\* the normalized input codes, every key of mapped is a normalized input
\* code, and no code is both a key of mapped and in unmapped.
C3_MappedAndUnmappedPartitionCodes ==
    (pc = "done" /\ Returns(result)) =>
        LET cleaned == Range(CleanedCodes(item_codes))
            keys == DOMAIN result.mapping_info.mapped
            rest == Range(result.mapping_info.unmapped)
        IN /\ keys \cup rest = cleaned
           /\ keys \subseteq cleaned
           /\ keys \cap rest = {}

C3_Witness ==
    /\ pc = "done"
    /\ Returns(result)
    /\ DOMAIN result.mapping_info.mapped # {}
    /\ result.mapping_info.unmapped # <<>>
    /\ Len(CleanedCodes(item_codes)) = MaxCodes

\* C4: unmapped is the subsequence of the normalized codes that have no
\* active lookup entry, in order and with duplicates; and when no normalized
\* code is in the lookup the result is (sales, [], {mapped: {}, unmapped: the
\* whole normalized list, categories_found: []}).
C4_UnmappedIsOrderedSubsequence ==
    (pc = "done" /\ Returns(result)) =>
        LET cleaned == CleanedCodes(item_codes)
            Absent(code) == code \notin ActiveCodes(table)
        IN /\ result.mapping_info.unmapped = SelectSeq(cleaned, Absent)
           /\ (\A i \in DOMAIN cleaned : Absent(cleaned[i])) =>
                /\ result.order_type = sales
                /\ result.categories = <<>>
                /\ result.mapping_info =
                     [mapped |-> <<>>, unmapped |-> cleaned, categories_found |-> <<>>]

\* C5: the order type follows from the number of distinct recognized
\* categories alone: none gives sales and []; exactly one category c gives
\* the normalization of c and [c]; two or more give mixed and the distinct
\* categories in ascending code-point order without repeats; and the order
\* type is mixed exactly when two or more distinct categories were found.
C5_OrderTypeByCategoryCount ==
    (pc = "done" /\ Returns(result)) =>
        LET cats == RecognizedCategories(item_codes, table) IN
        /\ cats = {} => (result.order_type = sales /\ result.categories = <<>>)
        /\ \A c \in cats : cats = {c} =>
             /\ result.order_type = NormalizeCategoryToOrderType(c)
             /\ result.categories = <<c>>
        /\ Cardinality(cats) >= 2 =>
             /\ result.order_type = mixed
             /\ Range(result.categories) = cats
             /\ \A i, j \in DOMAIN result.categories :
                    i < j => StrLess(result.categories[i], result.categories[j])
        /\ (result.order_type = mixed) <=> (Cardinality(cats) >= 2)

\* two categories found in rows that list them in descending order
C5_Witness ==
    /\ pc = "done"
    /\ Returns(result)
    /\ result.order_type = mixed
    /\ result.categories = <<Parts, labour>>
    /\ Len(table) = 2
    /\ table[1].category = labour

\* C6: the empty category gives sales; otherwise, lower-cased and trimmed,
\* equality with "labour" gives labour; otherwise containing "tyre" or
\* "service" gives service; any other value gives labour; the result is one
\* of sales, labour, service.
C6_NormalizeCategoryRules ==
    pc = "done" =>
        /\ norm_result \in {sales, labour, service}
        /\ category = <<>> => norm_result = sales
        /\ category # <<>> =>
            IF IsPadded(Lower(category), labour) THEN norm_result = labour
            ELSE IF OccursIgnoringCase(category, tyre) \/ OccursIgnoringCase(category, service)
                 THEN norm_result = service
            ELSE norm_result = labour

\* "labour service" is service
C6_Witness ==
    /\ pc = "done"
    /\ category = labour \o sp \o service
    /\ norm_result = service

\* C7: two calls whose lookups recognize the same set of categories return
\* the same order type and categories, whatever their unmapped codes; when
\* the one recognized category is "labour" the order type is labour.
C7_UnmappedCodesDoNotDecide ==
    (pc = "again" /\ Returns(result) /\ Returns(other_result)) =>
        /\ RecognizedCategories(item_codes, table) = RecognizedCategories(other_codes, table)
             => /\ result.order_type = other_result.order_type
                /\ result.categories = other_result.categories
        /\ RecognizedCategories(item_codes, table) = {labour} => result.order_type = labour
        /\ RecognizedCategories(other_codes, table) = {labour} => other_result.order_type = labour

\* the same categories recognized, one call with an unmapped code and one without
C7_Witness ==
    /\ pc = "again"
    /\ Returns(result)
    /\ Returns(other_result)
    /\ RecognizedCategories(item_codes, table) = {labour}
    /\ RecognizedCategories(other_codes, table) = {labour}
    /\ result.mapping_info.unmapped # <<>>
    /\ other_result.mapping_info.unmapped = <<>>

\* C8: when the cleaned code list is not empty and the lookup fails, the
\* call ends with that fault and returns nothing; (sales, []) is returned
\* only when the lookup succeeded and recognized no category or when the
\* cleaned list was empty.
C8_LookupFaultPropagates ==
    pc = "done" =>
        /\ (CleanedCodes(item_codes) # <<>> /\ dbFault # "none")
             => (result.kind = "raise" /\ result.exc = dbFault)
        /\ (Returns(result) /\ result.order_type = sales /\ result.categories = <<>>)
             => \/ CleanedCodes(item_codes) = <<>>
                \/ dbFault = "none" /\ RecognizedCategories(item_codes, table) = {}

C8_Witness ==
    /\ pc = "done"
    /\ result.kind = "raise"
    /\ result.exc = "ProgrammingError"
    /\ ActiveCodes(table) \cap Range(CleanedCodes(item_codes)) # {}

\* C9: mixed with categories gives "Mixed (" + the title-cased categories
\* joined by ", " in the given order + ")"; labour, service, sales and
\* inquiry give their capitalized word whatever the categories; anything
\* else, mixed with no categories included, gives the title-cased order type.
C9_DisplaySelection ==
    pc = "done" =>
        IF d_order_type = mixed /\ d_categories # <<>>
        THEN LET n == Len(d_categories) IN
             /\ Len(d_result) = TitleOffset(d_categories, n + 1) - 1
             /\ SubSeq(d_result, 1, 7) = <<"M","i","x","e","d"," ","(">>
             /\ d_result[Len(d_result)] = ")"
             /\ \A i \in 1..n :
                  LET from == TitleOffset(d_categories, i)
                      to == from + Len(d_categories[i]) - 1
                  IN /\ IsTitleOf(SubSeq(d_result, from + 1, to + 1), d_categories[i])
                     /\ i < n => SubSeq(d_result, to + 2, to + 3) = <<",", " ">>
        ELSE IF d_order_type = labour THEN d_result = <<"L","a","b","o","u","r">>
        ELSE IF d_order_type = service THEN d_result = <<"S","e","r","v","i","c","e">>
        ELSE IF d_order_type = sales THEN d_result = <<"S","a","l","e","s">>
        ELSE IF d_order_type = inquiry THEN d_result = <<"I","n","q","u","i","r","y">>
        ELSE /\ IsTitleOf(d_result, d_order_type)
             /\ d_order_type = mixed => d_result = <<"M","i","x","e","d">>

\* a mixed order with the most categories, one of them not lower-case
C9_Witness ==
    /\ pc = "done"
    /\ d_order_type = mixed
    /\ Len(d_categories) = MaxCats
    /\ d_categories[1] = tyre_service
    /\ d_categories[MaxCats] = <<"P","A","R","T","S">>

\* C10: categories_found, and the returned categories, hold exactly the
\* distinct categories that occur as values of mapped, also when the lookup
\* returns several rows for one code and mapped keeps the last of them.
C10_CategoriesAreThoseOfMapped ==
    (pc = "done" /\ Returns(result)) =>
        /\ Range(result.categories) = DictValues(result.mapping_info.mapped)
        /\ "categories_found" \in DOMAIN result.mapping_info =>
             Range(result.mapping_info.categories_found)
                = DictValues(result.mapping_info.mapped)

====
